---- MODULE Spec2Model ----
(***************************************************************************)
(* Analysis orchestration engine of jiraMicroLabAutomation:                *)
(*   - the batch job runner and its cancellation (api/issues/router.py),   *)
(*   - revision tracking of feedback records (api/issues/service.py),      *)
(*   - the WebSocket connection manager and its lock                       *)
(*     (api/websocket/manager.py),                                         *)
(*   - the tracker client's request retry (src/jira_client.py),            *)
(*   - the feedback cache (src/cache.py) and the delivery of feedback to   *)
(*     the tracker (src/app.py, src/feedback_writer.py),                   *)
(*   - the rubric scorer and the content fingerprint (src/rubric.py,       *)
(*     src/jira_client.py).                                                *)
(* Each part has its own next-state relation over the shared variables;    *)
(* a coroutine is modelled by its position (the await it is suspended in)  *)
(* and one action per resumption, which runs the synchronous code up to    *)
(* the next await.                                                         *)
(***************************************************************************)
EXTENDS Integers, Sequences, FiniteSets, TLC

\* ------------------------------------------------------------------ bounds
MaxIssues == 3
MaxCancels == 2
MaxRecords == 4

\* ------------------------------------------------------------- variables
VARIABLES
    job,            \* the persisted AnalysisJob row
    pc,             \* the await run_batch_analysis is suspended in
    nIssues,        \* len(issues) returned by search_issues
    idx,            \* enumerate index + 1 of the item being processed
    events,         \* events handed to the emit_* helpers, in order
    scored,         \* items handed to analyze_issue, in order
    saved,          \* items whose feedback record save_feedback wrote, in order
    scores,         \* the runner's list scores
    responses,      \* HTTP status codes returned by cancel_job, in order
    records,        \* feedback_history rows in insertion order (id = position)
    writer,         \* per save_feedback execution: position and what it read
    job_connections,
    user_connections,
    connection_info,
    ws,             \* per websocket: lifecycle and the job id it connected with
    received,       \* per websocket: how often the current event was sent to it
    emitter,        \* the emit_* call in progress, and its last broadcast
    finished,       \* jobs in a terminal status whose runner is at its exit
    lock,           \* ConnectionManager._lock: the task holding it, 0 if free
    task,           \* per asyncio task: the manager call it is in
    running,        \* the task the event loop is executing, 0 between steps
    max_retries,    \* argument of the _request_with_retry call
    attempt,        \* its loop variable
    requests,       \* what self.client.request did, per HTTP attempt
    result,         \* how the call ended: the return or the exception raised
    cache_rows,     \* table feedback_cache: issue_key -> last_hash, comment_count
    conn,           \* FeedbackCache.conn is open
    caller,         \* per thread: the FeedbackCache call it is in
    applied,        \* per issue_key: mark_commented calls returned since clear
    nMarks,         \* mark_commented calls made
    item_hash,      \* content_hash of the tracker item TEST-1 as it is now
    comments,       \* comments the tracker accepted on it: the hash each is on
    cli,            \* the command-line pass in progress
    history,        \* feedback_history rows written by the server
    activities,     \* activity events the batch runner emitted on posting
    jira_issue,     \* the tracker item as last fetched
    rubric,         \* the user's rubric configuration
    hash_seed,      \* string hash seed of the interpreter process
    evaluations,    \* results of the evaluations made
    fingerprints    \* fingerprints taken, each with the item it was taken of

jobVars == <<job, pc, nIssues, idx, events, scored, saved, scores, responses>>
fbVars == <<records, writer>>
busVars == <<job_connections, user_connections, connection_info, ws, received,
             emitter, finished>>
lockVars == <<lock, task, running>>
retryVars == <<max_retries, attempt, requests, result>>
cacheVars == <<cache_rows, conn, caller, applied, nMarks>>
deliveryVars == <<item_hash, comments, cli, history, activities>>
scoreVars == <<jira_issue, rubric, hash_seed, evaluations, fingerprints>>
vars == <<job, pc, nIssues, idx, events, scored, saved, scores, responses,
          records,
          writer,
          job_connections, user_connections, connection_info, ws, received,
          emitter, finished, lock, task, running, max_retries, attempt,
          requests, result, cache_rows, conn, caller, applied, nMarks,
          item_hash, comments, cli, history, activities,
          jira_issue, rubric, hash_seed, evaluations, fingerprints>>

\* what the actions of one part leave alone
outsideJob == <<fbVars, busVars, lockVars, retryVars, cacheVars,
                deliveryVars, scoreVars>>
outsideFb == <<jobVars, busVars, lockVars, retryVars, cacheVars,
               deliveryVars, scoreVars>>
outsideBus == <<jobVars, fbVars, lockVars, retryVars, cacheVars,
                deliveryVars, scoreVars>>
outsideLock == <<jobVars, fbVars, busVars, retryVars, cacheVars,
                 deliveryVars, scoreVars>>
outsideRetry == <<jobVars, fbVars, busVars, lockVars, cacheVars,
                  deliveryVars, scoreVars>>
outsideCache == <<jobVars, fbVars, busVars, lockVars, retryVars,
                  deliveryVars, scoreVars>>
outsideScore == <<jobVars, fbVars, busVars, lockVars, retryVars, cacheVars,
                  deliveryVars>>
\* the delivery paths use the feedback cache table
outsideDelivery == <<jobVars, fbVars, busVars, lockVars, retryVars, scoreVars,
                     conn, caller, nMarks>>

None == "None"

\* =====================================================================
\* Batch job runner
\* =====================================================================
Terminal == {"completed", "failed", "cancelled"}

\* a score column that is NULL, and the NULL average
NoScore == -1
NoMean == [num |-> -1, den |-> 1]

\* feedback.score of the items of the model
ScoreValues == {40, 90}

NewJob ==
    [status |-> "pending", total_issues |-> 0, processed_issues |-> 0,
     failed_issues |-> 0, current_issue_key |-> 0, error_message |-> None,
     started_at |-> FALSE, completed_at |-> FALSE,
     average_score |-> NoMean, lowest_score |-> NoScore,
     highest_score |-> NoScore]

RECURSIVE Total(_)
Total(list) == IF list = <<>> THEN 0 ELSE Head(list) + Total(Tail(list))

RECURSIVE Gcd(_, _)
Gcd(a, b) == IF b = 0 THEN a ELSE Gcd(b, a % b)

\* sum(list) / len(list), as a fraction in lowest terms
Mean(list) ==
    LET g == Gcd(Total(list), Len(list))
    IN [num |-> Total(list) \div g, den |-> Len(list) \div g]

Lowest(list) ==
    CHOOSE x \in {list[k] : k \in 1..Len(list)} :
        \A k \in 1..Len(list) : x <= list[k]

Highest(list) ==
    CHOOSE x \in {list[k] : k \in 1..Len(list)} :
        \A k \in 1..Len(list) : x >= list[k]

\* "Update final statistics"
FinalStatistics(j, list) ==
    LET done == [j EXCEPT !.status = "completed", !.completed_at = TRUE,
                          !.current_issue_key = 0]
    IN IF list # <<>>
         THEN [done EXCEPT !.average_score = Mean(list),
                           !.lowest_score = Lowest(list),
                           !.highest_score = Highest(list)]
         ELSE done

Event(type, item) == [type |-> type, item |-> item]

Emit(type, item) == events' = Append(events, Event(type, item))

\* job.processed_issues = i + 1, with i the zero-based enumerate index
ProcessedAfterBug(item) == item + 1
ProcessedAfter(item) == item

\* the cancellation poll at the top of an iteration
SeesCancelledBug(status) == FALSE
SeesCancelled(status) == status = "cancelled"

\* cancel_job: 400 unless the job is pending or running
CancelJob ==
    /\ Len(responses) < MaxCancels
    /\ IF job.status \in {"pending", "running"}
         THEN /\ job' = [job EXCEPT !.status = "cancelled"]
              /\ responses' = Append(responses, 204)
         ELSE /\ job' = job
              /\ responses' = Append(responses, 400)
    /\ UNCHANGED <<pc, nIssues, idx, events, scored, saved, scores, outsideJob>>

\* the except branch of the issue search
SearchFailedBug(j) ==
    [j EXCEPT !.error_message = "Failed to search issues"]
SearchFailed(j) ==
    [j EXCEPT !.status = "failed",
              !.error_message = "Failed to search issues",
              !.completed_at = TRUE]

\* The name AnalysisJob in the module namespace of api/issues/router.py: the
\* module never imports it.
AnalysisJobBound == FALSE

\* The outer except handler of run_batch_analysis. Its first statement
\* evaluates AnalysisJob; the NameError of an unbound name is raised inside
\* the handler's own try and swallowed by its bare except.
FatalHandler(j) ==
    IF AnalysisJobBound
      THEN [j EXCEPT !.status = "failed", !.error_message = "fatal",
                     !.completed_at = TRUE]
      ELSE j

\* "if not job or job.status == 'cancelled': return" at the start of the
\* runner
NotRunnableBug(status) == FALSE
NotRunnable(status) == status = "cancelled"

\* run_batch_analysis up to its first await
RunnerStart ==
    /\ pc = "start"
    /\ IF NotRunnable(job.status)
         THEN /\ pc' = "done"
              /\ UNCHANGED <<job, nIssues, events>>
         ELSE \/ \E n \in 0..MaxIssues :
                   /\ nIssues' = n
                   /\ job' = [job EXCEPT !.status = "running",
                                         !.started_at = TRUE,
                                         !.total_issues = n]
                   /\ Emit("job_started", 0)
                   /\ pc' = "emit_job_started"
              \/ /\ job' = SearchFailed([job EXCEPT !.status = "running",
                                                     !.started_at = TRUE])
                 /\ Emit("job_failed", 0)
                 /\ pc' = "emit_job_failed"
                 /\ UNCHANGED nIssues
    /\ UNCHANGED <<idx, scored, saved, scores, responses, outsideJob>>

\* the except branch of one item
ItemFailedBug ==
    /\ job' = [job EXCEPT !.failed_issues = @ + 1]
    /\ UNCHANGED events
    /\ pc' = "emit_issue_failed"
ItemFailed ==
    /\ job' = [job EXCEPT !.failed_issues = @ + 1]
    /\ Emit("issue_failed", idx)
    /\ pc' = "emit_issue_failed"

\* top of the for loop, or the code after it when the items are exhausted
LoopTop ==
    /\ pc \in {"emit_job_started", "emit_job_progress", "emit_issue_failed"}
    /\ IF idx < nIssues
         THEN IF SeesCancelled(job.status)
                THEN /\ Emit("activity", 0)
                     /\ pc' = "emit_activity"
                     /\ UNCHANGED <<job, idx>>
                ELSE /\ idx' = idx + 1
                     /\ job' = [job EXCEPT !.current_issue_key = idx + 1]
                     /\ Emit("issue_started", idx + 1)
                     /\ pc' = "emit_issue_started"
         ELSE /\ job' = FinalStatistics(job, scores)
              /\ Emit("job_completed", 0)
              /\ pc' = "emit_job_completed"
              /\ UNCHANGED idx
    /\ UNCHANGED <<nIssues, scored, saved, scores, responses, outsideJob>>

\* resumed after emit_issue_started: analyze_issue
AfterIssueStarted ==
    /\ pc = "emit_issue_started"
    /\ scored' = Append(scored, idx)
    /\ \/ /\ Emit("issue_rubric_complete", idx)
          /\ pc' = "emit_issue_rubric_complete"
          /\ UNCHANGED job
       \/ ItemFailed
    /\ UNCHANGED <<nIssues, idx, saved, scores, responses, outsideJob>>

\* Resumed after emit_issue_rubric_complete: save_feedback, which commits
\* the record, scores.append(feedback.score), the counter and the commit of
\* the item. When save_feedback raises nothing was saved; when the commit of
\* the item raises the session is rolled back: the record and the list
\* entry stay, the counter is not persisted.
AfterRubricComplete ==
    /\ pc = "emit_issue_rubric_complete"
    /\ \E score \in ScoreValues :
          \/ /\ saved' = Append(saved, idx)
             /\ scores' = Append(scores, score)
             /\ job' = [job EXCEPT !.processed_issues = ProcessedAfter(idx)]
             /\ Emit("issue_complete", idx)
             /\ pc' = "emit_issue_complete"
          \/ /\ saved' = Append(saved, idx)
             /\ scores' = Append(scores, score)
             /\ ItemFailed
          \/ /\ ItemFailed
             /\ UNCHANGED <<saved, scores>>
    /\ UNCHANGED <<nIssues, idx, scored, responses, outsideJob>>

\* resumed after emit_issue_complete
AfterIssueComplete ==
    /\ pc = "emit_issue_complete"
    /\ Emit("job_progress", idx)
    /\ pc' = "emit_job_progress"
    /\ UNCHANGED <<job, nIssues, idx, scored, saved, scores, responses, outsideJob>>

\* resumed after the last emit of a path: return
RunnerReturn ==
    /\ pc \in {"emit_job_completed", "emit_job_failed", "emit_activity"}
    /\ pc' = "done"
    /\ UNCHANGED <<job, nIssues, idx, events, scored, saved, scores, responses,
                   outsideJob>>

\* An exception raised outside the per-item try while the loop is resumed
\* (db.refresh or db.commit on a lost database connection) reaches the outer
\* except handler; the finally clause closes the session and the runner
\* exits.
FatalError ==
    /\ pc \in {"emit_job_started", "emit_job_progress", "emit_issue_failed"}
    /\ job' = FatalHandler(job)
    /\ IF AnalysisJobBound THEN Emit("job_failed", 0) ELSE UNCHANGED events
    /\ pc' = "done"
    /\ UNCHANGED <<nIssues, idx, scored, saved, scores, responses, outsideJob>>

NextJob ==
    \/ CancelJob
    \/ RunnerStart
    \/ LoopTop
    \/ AfterIssueStarted
    \/ AfterRubricComplete
    \/ AfterIssueComplete
    \/ RunnerReturn
    \/ FatalError

\* ---------------------------------------------------------------------
\* Properties of the job runner
\* ---------------------------------------------------------------------
CancelAccepted == \E k \in 1..Len(responses) : responses[k] = 204

EventsOfType(log, type) == {k \in 1..Len(log) : log[k].type = type}

NewEvents == {k \in 1..Len(events') : k > Len(events)}

\* C1: terminal job states are absorbing: once the persisted status is
\* completed, failed or cancelled, no step of run_batch_analysis or
\* cancel_job changes it.
C1_TerminalAbsorbing ==
    [][job.status \in Terminal => job'.status = job.status]_vars

\* C2: a fetched, never cancelled batch of N items of which exactly k raise
\* ends completed with processed_issues = N and failed_issues = k.
C2_ExactCounters ==
    (pc = "done" /\ EventsOfType(events, "job_started") # {} /\ ~CancelAccepted)
        => /\ job.status = "completed"
           /\ job.processed_issues = nIssues
           /\ job.failed_issues = Cardinality(EventsOfType(events, "issue_failed"))

\* C3: cancellation promptness: once cancel_job has committed the status
\* cancelled, the runner emits no further issue_started event, and the only
\* item it may still hand to the scorer is the one whose issue_started was
\* already emitted (its iteration had passed the cancellation check).
C3_CancelPromptness ==
    [][CancelAccepted =>
          /\ \A k \in NewEvents : events'[k].type # "issue_started"
          /\ \A k \in 1..Len(scored') :
                k > Len(scored) =>
                    \E e \in EventsOfType(events, "issue_started") :
                        events[e].item = scored'[k]]_vars

\* a cancel was accepted in the middle of a batch, the runner saw it at the
\* next item boundary and returned with items left unprocessed
C3_Witness ==
    /\ pc = "done"
    /\ job.status = "cancelled"
    /\ idx >= 1
    /\ idx < nIssues
    /\ Len(scored) = idx
    /\ events[Len(events)].type = "activity"

\* C4: processed_issues never exceeds total_issues and never decreases.
C4_Monotone ==
    /\ [](job.processed_issues <= job.total_issues)
    /\ [][job'.processed_issues >= job.processed_issues]_vars

\* successes, a failure and a cancellation in one job
C4_Witness ==
    /\ job.processed_issues >= 2
    /\ job.failed_issues >= 1
    /\ job.status = "cancelled"
    /\ job.processed_issues <= job.total_issues

\* C15: source-error path: when the issue search raises at the start of the
\* runner, the job goes from running (started_at is set) directly to failed
\* with error_message and completed_at set; no item is scored, no feedback
\* record is written, processed_issues and failed_issues stay 0, and
\* job_failed is the only job-level event emitted (no job_started).
C15_SourceError ==
    job.error_message = "Failed to search issues" =>
        /\ job.status = "failed"
        /\ job.started_at
        /\ job.completed_at
        /\ scored = <<>>
        /\ saved = <<>>
        /\ job.processed_issues = 0
        /\ job.failed_issues = 0
        /\ events = <<Event("job_failed", 0)>>

\* the search has raised, the runner has emitted job_failed and returned,
\* and a later cancel request was refused
C15_Witness ==
    /\ pc = "done"
    /\ job.status = "failed"
    /\ job.error_message = "Failed to search issues"
    /\ events = <<Event("job_failed", 0)>>
    /\ responses # <<>>
    /\ responses[Len(responses)] = 400

\* C16: fatal internal errors surface on the job record: when an exception
\* other than a per-item error escapes the batch loop, the status becomes
\* failed and error_message holds the error text, so a job is never left in
\* status running after its runner has exited.
C16_FatalSurfaces ==
    pc = "done" => /\ job.status # "running"
                   /\ job.status = "failed" => job.error_message # None

\* C17: current_issue_key tracks the item in flight and is cleared at
\* termination: while item x is being scored current_issue_key is the key of
\* x, and in every terminal state (completed, failed, cancelled) reached by
\* the time the runner has exited, current_issue_key is null.
C17_CurrentIssueKey ==
    /\ pc \in {"emit_issue_started", "emit_issue_rubric_complete"}
          => job.current_issue_key = idx
    /\ (pc = "done" /\ job.status \in Terminal) => job.current_issue_key = 0

\* C30: a job cancelled while still pending never runs: once cancel_job has
\* committed the status cancelled before the runner has started, the job
\* record stays as it is (status cancelled, never running, total_issues and
\* the counters 0), nothing is searched, scored or saved and no event is
\* emitted; and cancel_job on a job that is completed, failed or cancelled
\* is refused with 400 and leaves the job record unchanged.
C30_CancelledPendingNeverRuns ==
    [][/\ (job.status = "cancelled" /\ ~job.started_at)
            => /\ job' = job
               /\ job'.total_issues = 0
               /\ job'.processed_issues = 0
               /\ job'.failed_issues = 0
               /\ nIssues' = 0
               /\ events' = <<>>
               /\ scored' = <<>>
               /\ saved' = <<>>
               /\ pc' \in {"start", "done"}
       /\ (job.status \in Terminal /\ Len(responses') > Len(responses))
            => /\ job' = job
               /\ responses'[Len(responses')] = 400]_vars

\* the job was cancelled while pending, its runner has started and returned
\* at once, and a second cancel request was refused
C30_Witness ==
    /\ pc = "done"
    /\ job = [NewJob EXCEPT !.status = "cancelled"]
    /\ events = <<>>
    /\ responses = <<204, 400>>

ItemEventTypes == {"issue_started", "issue_rubric_complete", "issue_complete",
                   "issue_failed"}

FailedItems == {events[k].item : k \in EventsOfType(events, "issue_failed")}

\* the scores, among the first n appended, of the items that have not failed
RECURSIVE ScoresOfSuccessful(_)
ScoresOfSuccessful(n) ==
    IF n = 0 THEN <<>>
    ELSE IF saved[n] \notin FailedItems
           THEN Append(ScoresOfSuccessful(n - 1), scores[n])
           ELSE ScoresOfSuccessful(n - 1)

Users == {1, 2}
IssueKeys == {"TEST-1"}
Hashes == {"abcd", "ef01"}
Writers == {1, 2}

IdleWriter == [pc |-> "idle", user |-> 0, issue_key |-> None,
               content_hash |-> None, previous |-> 0]

\* .filter(user_id, issue_key).order_by(created_at.desc()).first(): the id
\* of the newest matching row, 0 when there is none
LatestFor(rows, user, key) ==
    LET match == {p \in 1..Len(rows) :
                     rows[p].user = user /\ rows[p].issue_key = key}
    IN IF match = {} THEN 0
       ELSE CHOOSE p \in match : \A q \in match : q <= p

\* "Determine revision info" for the row that was read (0: none)
RevisionInfoBug(rows, previous, hash) ==
    IF previous = 0
      THEN [revision_number |-> 1, previous_feedback_id |-> 0]
      ELSE [revision_number |-> rows[previous].revision_number + 1,
            previous_feedback_id |-> previous]
RevisionInfo(rows, previous, hash) ==
    IF previous = 0
      THEN [revision_number |-> 1, previous_feedback_id |-> 0]
      ELSE IF rows[previous].content_hash # hash
             THEN [revision_number |-> rows[previous].revision_number + 1,
                   previous_feedback_id |-> previous]
             ELSE [revision_number |-> rows[previous].revision_number,
                   previous_feedback_id |-> previous]

InFlight == Cardinality({w \in Writers : writer[w].pc = "queried"})

\* save_feedback up to the result of the query for the previous feedback
SaveQuery(w, user, key, hash) ==
    /\ writer[w].pc = "idle"
    /\ Len(records) + InFlight < MaxRecords
    /\ writer' = [writer EXCEPT ![w] =
                     [pc |-> "queried", user |-> user, issue_key |-> key,
                      content_hash |-> hash,
                      previous |-> LatestFor(records, user, key)]]
    /\ UNCHANGED <<records, outsideFb>>

\* the rest of save_feedback: build the row from what was read, add, commit
SaveCommit(w) ==
    /\ writer[w].pc = "queried"
    /\ LET info == RevisionInfo(records, writer[w].previous,
                                writer[w].content_hash)
       IN records' = Append(records,
                        [user |-> writer[w].user,
                         issue_key |-> writer[w].issue_key,
                         content_hash |-> writer[w].content_hash,
                         revision_number |-> info.revision_number,
                         previous_feedback_id |-> info.previous_feedback_id])
    /\ writer' = [writer EXCEPT ![w] = IdleWriter]
    /\ UNCHANGED <<outsideFb>>

NextFeedback ==
    \/ \E w \in Writers, user \in Users, key \in IssueKeys, hash \in Hashes :
          SaveQuery(w, user, key, hash)
    \/ \E w \in Writers : SaveCommit(w)

\* ---------------------------------------------------------------------
\* Properties of the revision tracking
\* ---------------------------------------------------------------------
\* ids of the rows of one (user, issue key), in creation order
RowsOf(user, key) ==
    {p \in 1..Len(records) :
        records[p].user = user /\ records[p].issue_key = key}

NumConns == 2
Conns == 1..NumConns
BusUsers == {1, 2}
Jobs == {"J1", "J2"}
JobOwner == [j \in Jobs |-> 1]

\* the emit_* helpers: with a mandatory job, with an optional job, with
\* cleanup_job at the end, and user-only (emit_activity). What a helper does
\* after building its event depends only on the job id and on whether it
\* ends with cleanup_job, which is what the emitter keeps.
JobEmits == {"job_started", "job_progress"}
IssueEmits == {"issue_started", "issue_rubric_complete", "issue_complete",
               "issue_failed"}
FinalEmits == {"job_completed", "job_failed"}
EmitKinds == JobEmits \cup IssueEmits \cup FinalEmits \cup {"activity"}

Get(f, k) == IF k \in DOMAIN f THEN f[k] ELSE {}
Put(f, k, v) == [x \in DOMAIN f \cup {k} |-> IF x = k THEN v ELSE f[x]]
Del(f, k) == [x \in DOMAIN f \ {k} |-> f[x]]
Discard(f, k, c) == IF f[k] \ {c} = {} THEN Del(f, k) ELSE Put(f, k, f[k] \ {c})

\* the three index structures as one value
Indices == [jc |-> job_connections, uc |-> user_connections,
            info |-> connection_info]

SetIndices(I) ==
    /\ job_connections' = I.jc
    /\ user_connections' = I.uc
    /\ connection_info' = I.info

\* the locked section of connect
ConnectIdxBug(I, c, user, jobId) ==
    [jc |-> IF jobId # None THEN Put(I.jc, jobId, Get(I.jc, jobId) \cup {c})
            ELSE I.jc,
     uc |-> Put(I.uc, user, Get(I.uc, user) \cup {c}),
     info |-> Put(I.info, c, [user |-> user, job |-> None])]
ConnectIdx(I, c, user, jobId) ==
    [jc |-> IF jobId # None THEN Put(I.jc, jobId, Get(I.jc, jobId) \cup {c})
            ELSE I.jc,
     uc |-> Put(I.uc, user, Get(I.uc, user) \cup {c}),
     info |-> Put(I.info, c, [user |-> user, job |-> jobId])]

\* disconnect
DisconnectIdxBug(I, c) ==
    IF c \notin DOMAIN I.info THEN I
    ELSE LET user == I.info[c].user
         IN [jc |-> I.jc,
             uc |-> IF user \in DOMAIN I.uc THEN Discard(I.uc, user, c) ELSE I.uc,
             info |-> Del(I.info, c)]
DisconnectIdx(I, c) ==
    IF c \notin DOMAIN I.info THEN I
    ELSE LET user == I.info[c].user
             jobId == I.info[c].job
         IN [jc |-> IF jobId # None /\ jobId \in DOMAIN I.jc
                      THEN Discard(I.jc, jobId, c) ELSE I.jc,
             uc |-> IF user \in DOMAIN I.uc THEN Discard(I.uc, user, c) ELSE I.uc,
             info |-> Del(I.info, c)]

\* cleanup_job
CleanupIdxBug(I, jobId) ==
    IF jobId \notin DOMAIN I.jc THEN I
    ELSE [jc |-> Del(I.jc, jobId),
          uc |-> [u \in DOMAIN I.uc |-> I.uc[u] \ I.jc[jobId]],
          info |-> [c \in DOMAIN I.info \ I.jc[jobId] |-> I.info[c]]]
CleanupIdx(I, jobId) ==
    IF jobId \notin DOMAIN I.jc THEN I
    ELSE [jc |-> Del(I.jc, jobId),
          uc |-> I.uc,
          info |-> [c \in DOMAIN I.info |->
                      IF c \in I.jc[jobId]
                        THEN [user |-> I.info[c].user, job |-> None]
                        ELSE I.info[c]]]

\* send_personal: "sent", "raised" (then disconnect) or "skipped" (the
\* client_state is not CONNECTED). send_text raises when the transport
\* fails (fail), and from then on
SendOutcome(c, fail) ==
    IF ws[c].state \notin {"greeting", "open", "broken"} THEN "skipped"
    ELSE IF ws[c].state = "broken" \/ fail THEN "raised" ELSE "sent"

\* the websocket after send_personal
AfterSend(socket, out) ==
    IF out = "raised" THEN [state |-> "broken", job |-> None] ELSE socket

\* the snapshots taken under the lock by the three broadcasts
JobSnapshot(I, jobId) == Get(I.jc, jobId)
UserSnapshotBug(I, user) == {c \in Get(I.uc, user) : I.info[c].job # None}
UserSnapshot(I, user) == Get(I.uc, user)
AllSnapshot(I) == DOMAIN I.info

NewSocket == [state |-> "new", job |-> None]
ClosedSocket == [state |-> "closed", job |-> None]

IdleEmitter ==
    [pc |-> "idle", cleanup |-> FALSE, job |-> None, user |-> 0,
     snapshot |-> {}, todo |-> {}, attempted |-> {}, failed |-> {},
     stable |-> {}, last |-> [snapshot |-> {}, attempted |-> {}, failed |-> {}]]

\* manager.connect up to the send of the CONNECTED event; the job endpoint
\* has verified that the job belongs to the user
Connect(c, user, jobId) ==
    /\ ws[c].state = "new"
    /\ jobId # None => JobOwner[jobId] = user
    /\ SetIndices(ConnectIdx(Indices, c, user, jobId))
    /\ ws' = [ws EXCEPT ![c] = [state |-> "greeting", job |-> jobId]]
    /\ UNCHANGED <<received, emitter, finished, outsideBus>>

\* the send of the CONNECTED event; the handler then waits in receive_text
Greet(c, fail) ==
    /\ ws[c].state = "greeting"
    /\ IF SendOutcome(c, fail) = "raised"
         THEN /\ SetIndices(DisconnectIdx(Indices, c))
              /\ emitter' = [emitter EXCEPT !.stable = @ \ {c}]
         ELSE UNCHANGED <<job_connections, user_connections, connection_info,
                          emitter>>
    /\ ws' = [ws EXCEPT ![c] =
                 AfterSend([@ EXCEPT !.state = "open"], SendOutcome(c, fail))]
    /\ UNCHANGED <<received, finished, outsideBus>>

\* receive_text raises WebSocketDisconnect: manager.disconnect
RouterDisconnect(c) ==
    /\ ws[c].state \in {"open", "broken"}
    /\ SetIndices(DisconnectIdx(Indices, c))
    /\ emitter' = [emitter EXCEPT !.stable = @ \ {c}]
    /\ ws' = [ws EXCEPT ![c] = ClosedSocket]
    /\ UNCHANGED <<received, finished, outsideBus>>

\* Where an emit goes on after the broadcast of phase ph has returned, the
\* indices being I: the next broadcast with a non-empty snapshot, or the end
\* of the helper, with cleanup_job for the final events. A broadcast whose
\* snapshot is empty returns without suspending.
Continue(e, ph, I) ==
    LET userSnap == UserSnapshot(I, e.user)
        atEnd == [e EXCEPT !.pc = "returned", !.snapshot = {}, !.todo = {},
                              !.attempted = {}, !.failed = {}]
    IN IF ph = "job" /\ userSnap # {}
         THEN [em |-> [e EXCEPT !.pc = "user", !.snapshot = userSnap,
                                !.todo = userSnap, !.attempted = {},
                                !.failed = {}],
               idx |-> I]
         ELSE [em |-> atEnd,
               idx |-> IF e.cleanup THEN CleanupIdx(I, e.job)
                       ELSE I]

\* the broadcast of phase ph has returned
Returned(e) ==
    [e EXCEPT !.last = [snapshot |-> e.snapshot, attempted |-> e.attempted,
                        failed |-> e.failed]]

Subscribers(I, user, jobId) ==
    {c \in DOMAIN I.info :
        \/ jobId # None /\ I.info[c].job = jobId
        \/ I.info[c].user = user /\ I.info[c].job = None}

\* A call of an emit_* helper, up to its first send. The runner of a job
\* emits for it until it exits; it exits after job_completed or job_failed,
\* having committed the terminal status before the call, or, for a job it
\* finds cancelled (the job ended), after an emit_activity.
EmitStart(kind, user, jobId, ended) ==
    /\ emitter.pc = "idle"
    /\ kind \in JobEmits \cup FinalEmits => jobId # None
    /\ kind = "activity" => jobId = None
    /\ jobId # None => JobOwner[jobId] = user /\ jobId \notin finished
    /\ ended # None => /\ kind = "activity"
                       /\ JobOwner[ended] = user
                       /\ ended \notin finished
    /\ finished' = IF kind \in FinalEmits THEN finished \cup {jobId}
                   ELSE IF ended # None THEN finished \cup {ended}
                   ELSE finished
    /\ LET e0 == [IdleEmitter EXCEPT !.cleanup = kind \in FinalEmits,
                                    !.job = jobId,
                                    !.user = user,
                                    !.stable = Subscribers(Indices, user, jobId)]
           jobSnap == IF jobId # None THEN JobSnapshot(Indices, jobId) ELSE {}
           next == IF jobSnap # {}
                     THEN [em |-> [e0 EXCEPT !.pc = "job", !.snapshot = jobSnap,
                                             !.todo = jobSnap],
                           idx |-> Indices]
                     ELSE Continue(IF jobId # None THEN Returned(e0) ELSE e0,
                                   "job", Indices)
       IN /\ emitter' = next.em
          /\ SetIndices(next.idx)
    /\ UNCHANGED <<ws, received, outsideBus>>

\* manager.broadcast_all, up to its first send
BroadcastAll ==
    /\ emitter.pc = "idle"
    /\ AllSnapshot(Indices) # {}
    /\ emitter' = [IdleEmitter EXCEPT !.pc = "all",
                                      !.snapshot = AllSnapshot(Indices),
                                      !.todo = AllSnapshot(Indices),
                                      !.stable = AllSnapshot(Indices)]
    /\ UNCHANGED received
    /\ UNCHANGED <<job_connections, user_connections, connection_info, ws,
                   finished, outsideBus>>

\* one iteration of a broadcast loop: send_personal to one websocket of the
\* snapshot (a set: any order)
SendNext(c, fail) ==
    /\ emitter.pc \in {"job", "user", "all"}
    /\ c \in emitter.todo
    /\ LET out == SendOutcome(c, fail)
           I1 == IF out = "raised" THEN DisconnectIdx(Indices, c) ELSE Indices
           e1 == [emitter EXCEPT !.todo = @ \ {c},
                                 !.attempted = @ \cup {c},
                                 !.failed = IF out = "raised" THEN @ \cup {c} ELSE @,
                                 !.stable = IF out = "raised" THEN @ \ {c} ELSE @]
           next == IF e1.todo # {} THEN [em |-> e1, idx |-> I1]
                   ELSE IF emitter.pc = "all"
                     THEN [em |-> [Returned(e1) EXCEPT !.pc = "returned",
                                       !.snapshot = {}, !.attempted = {},
                                       !.failed = {}],
                           idx |-> I1]
                     ELSE Continue(Returned(e1), emitter.pc, I1)
       IN /\ emitter' = next.em
          /\ SetIndices(next.idx)
          /\ received' = IF out = "sent"
                           THEN [received EXCEPT ![c] = @ + 1] ELSE received
          /\ ws' = [ws EXCEPT ![c] = AfterSend(@, out)]
    /\ UNCHANGED <<finished, outsideBus>>

\* the helper (or broadcast_all) returns to its caller
EmitReturn ==
    /\ emitter.pc = "returned"
    /\ emitter' = IdleEmitter
    /\ received' = [c \in Conns |-> 0]
    /\ UNCHANGED <<job_connections, user_connections, connection_info, ws,
                   finished, outsideBus>>

NextBus ==
    \/ \E c \in Conns, user \in BusUsers, jobId \in Jobs \cup {None} :
          Connect(c, user, jobId)
    \/ \E c \in Conns, fail \in BOOLEAN : Greet(c, fail)
    \/ \E c \in Conns : RouterDisconnect(c)
    \/ \E kind \in EmitKinds, user \in BusUsers,
          jobId \in Jobs \cup {None}, ended \in Jobs \cup {None} :
          EmitStart(kind, user, jobId, ended)
    \/ BroadcastAll
    \/ \E c \in Conns, fail \in BOOLEAN : SendNext(c, fail)
    \/ EmitReturn

\* ---------------------------------------------------------------------
\* Properties of the connection manager
\* ---------------------------------------------------------------------
InSomeIndex(c) ==
    \/ c \in DOMAIN connection_info
    \/ \E j \in DOMAIN job_connections : c \in job_connections[j]
    \/ \E u \in DOMAIN user_connections : c \in user_connections[u]

\* C8: when an emit_* helper called for job J of user U has returned, the
\* event was sent to every connection that was subscribed to J, or
\* registered for U without job filter, from the call to the return (a
\* connection whose send fails is unregistered by that).
C8_Delivery ==
    (emitter.pc = "returned" /\ emitter.job # None)
        => \A c \in emitter.stable : received[c] >= 1

\* a job event has reached a subscriber of the job and an owner-wide one
C8_Witness ==
    /\ emitter.pc = "returned"
    /\ emitter.job # None
    /\ \E c, d \in emitter.stable :
          /\ ws[c].job = emitter.job
          /\ connection_info[c].job = emitter.job
          /\ ws[d].job = None
          /\ connection_info[d].user = JobOwner[emitter.job]
          /\ received[c] >= 1
          /\ received[d] >= 1

\* C9: job-filter isolation: a connection that connected with job filter J1
\* is never sent an event emitted for another job J2.
C9_JobFilterIsolation ==
    \A c \in Conns :
        (ws[c].job # None /\ emitter.job # None /\ emitter.job # ws[c].job)
            => received[c] = 0

\* C10: a connection whose send failed in a broadcast is in none of
\* job_connections, user_connections and connection_info, and a broadcast
\* that has returned has attempted every connection of its snapshot.
C10_SelfHealing ==
    /\ \A c \in emitter.failed \cup emitter.last.failed : ~InSomeIndex(c)
    /\ emitter.last.attempted = emitter.last.snapshot

\* a broadcast over two connections has returned: the send to one of them
\* failed, the other one was sent the event
C10_Witness ==
    /\ Cardinality(emitter.last.snapshot) >= 2
    /\ \E c, d \in emitter.last.snapshot :
          /\ c \in emitter.last.failed
          /\ ws[c].state = "broken"
          /\ d \notin emitter.last.failed
          /\ received[d] >= 1

\* The step in which a final emit helper returns: its last send, when there
\* was one, and cleanup_job(emitter.job). gone are the connections the
\* broadcast before cleanup_job has unregistered because their send failed.
CleanupStep ==
    /\ emitter.pc # "returned"
    /\ emitter'.pc = "returned"
    /\ emitter'.cleanup

CleanupFrame ==
    LET jobId == emitter'.job
        gone == emitter'.last.failed
        subs == Get(job_connections, jobId) \ gone
    IN /\ jobId \notin DOMAIN job_connections'
       /\ \A c \in subs :
             /\ c \in DOMAIN connection_info'
             /\ connection_info'[c]
                   = [user |-> connection_info[c].user, job |-> None]
             /\ c \in Get(user_connections', connection_info[c].user)
       /\ \A j \in Jobs \ {jobId} :
             Get(job_connections', j) = Get(job_connections, j) \ gone
       /\ \A u \in BusUsers :
             Get(user_connections', u) = Get(user_connections, u) \ gone
       /\ DOMAIN connection_info' = DOMAIN connection_info \ gone
       /\ \A c \in DOMAIN connection_info \ (subs \cup gone) :
             connection_info'[c] = connection_info[c]

\* C11: cleanup_job(J) downgrades rather than closes: when it has returned,
\* job_connections has no entry for J, every connection that was subscribed
\* to J is still in connection_info, with job filter None, and still in its
\* owner's user_connections set, and the subscriptions of the other jobs and
\* the entries of the other connections are what they were at the call.
C11_CleanupDowngrades == [][CleanupStep => CleanupFrame]_vars

\* cleanup_job has downgraded a subscriber of the job while another job has
\* a subscriber of its own
C11_Witness ==
    /\ emitter.pc = "returned"
    /\ emitter.cleanup
    /\ \E c \in DOMAIN connection_info :
          /\ ws[c].job = emitter.job
          /\ connection_info[c].job = None
    /\ \E j \in DOMAIN job_connections : job_connections[j] # {}

\* C12: every terminal transition of a job is followed by detaching its
\* job-scoped subscriptions: when a job is in a terminal status, its runner
\* has exited and no emit is in progress, job_connections holds no entry for
\* the job, also after the runner's cancelled path and for a connection that
\* subscribed after the job terminated.
C12_TerminalDetaches ==
    emitter.pc = "idle" => \A j \in finished : j \notin DOMAIN job_connections

\* C26: at-most-once delivery per emit: a call of an emit_* helper sends its
\* event at most once to any connection, whether the connection is
\* registered with a job filter or owner-wide.
C26_AtMostOncePerEmit ==
    \A c \in Conns : received[c] <= 1

\* get_connection_count
get_connection_count ==
    [total_connections |-> Cardinality(DOMAIN connection_info),
     users_connected |-> Cardinality(DOMAIN user_connections),
     jobs_subscribed |-> Cardinality(DOMAIN job_connections)]

\* C27: index consistency: in every state between two steps of the event
\* loop (no task holds the lock), (a) a connection is in
\* user_connections[u] iff connection_info maps it to (u, _), (b) it is in
\* job_connections[j] iff connection_info maps it to (_, j), and (c)
\* neither map contains an empty set; so get_connection_count reports
\* exactly the live connections, their users and the subscribed jobs.
C27_IndexConsistency ==
    LET live == {c \in Conns : ws[c].state \in {"greeting", "open"}}
    IN /\ \A u \in BusUsers, c \in Conns :
             c \in Get(user_connections, u)
                 <=> (c \in DOMAIN connection_info
                        /\ connection_info[c].user = u)
       /\ \A j \in Jobs, c \in Conns :
             c \in Get(job_connections, j)
                 <=> (c \in DOMAIN connection_info
                        /\ connection_info[c].job = j)
       /\ DOMAIN user_connections \subseteq BusUsers
       /\ DOMAIN job_connections \subseteq Jobs
       /\ \A u \in DOMAIN user_connections : user_connections[u] # {}
       /\ \A j \in DOMAIN job_connections : job_connections[j] # {}
       /\ DOMAIN connection_info = live
       /\ get_connection_count
             = [total_connections |-> Cardinality(live),
                users_connected |->
                    Cardinality({connection_info[c].user : c \in live}),
                jobs_subscribed |->
                    Cardinality({connection_info[c].job : c \in live}
                                   \ {None})]

\* after a final emit: a send has failed and unregistered its connection,
\* and cleanup_job has downgraded a subscriber of the job
C27_Witness ==
    /\ emitter.pc = "returned"
    /\ emitter.cleanup
    /\ emitter.last.failed # {}
    /\ \E c \in DOMAIN connection_info :
          ws[c].job = emitter.job /\ connection_info[c].job = None
    /\ get_connection_count.jobs_subscribed = 0
    /\ get_connection_count.total_connections >= 1

\* =====================================================================
\* ConnectionManager._lock (asyncio.Lock) and the awaits of the manager
\* =====================================================================
\* The manager's coroutines at the grain of the lock: a task runs from one
\* suspension to the next without another task running in between (running
\* is the task the event loop is executing). The suspensions are
\* websocket.accept, websocket.send_text and Lock.acquire on a held lock.
NumTasks == 3
MaxSnapshot == 2
Tasks == 1..NumTasks
ManagerCalls == {"connect", "disconnect", "broadcast", "cleanup_job"}

IdleTask == [op |-> "idle", pc |-> "idle", left |-> 0]

\* the lock at the exit of an "async with self._lock" block held by holder
ReleasedBug(holder) == holder
Released(holder) == 0

\* a task is created for a call of connect, disconnect, one of the three
\* broadcasts or cleanup_job, and runs to its first suspension
Call(t, op) ==
    /\ running = 0
    /\ task[t].pc = "idle"
    /\ IF op = "connect"
         THEN /\ task' = [task EXCEPT ![t] = [op |-> op, pc |-> "accept",
                                            left |-> 0]]
              /\ UNCHANGED running
         ELSE /\ task' = [task EXCEPT ![t] = [op |-> op, pc |-> "acquire",
                                            left |-> 0]]
              /\ running' = t
    /\ UNCHANGED <<lock, outsideLock>>

\* websocket.accept has returned
Accepted(t) ==
    /\ running = 0
    /\ task[t].pc = "accept"
    /\ task' = [task EXCEPT ![t].pc = "acquire"]
    /\ running' = t
    /\ UNCHANGED <<lock, outsideLock>>

\* Lock.__aenter__: takes a free lock without suspending; on a held lock the
\* task suspends until the lock is free
Acquire(t) ==
    /\ task[t].pc = "acquire"
    /\ \/ running = t
       \/ running = 0 /\ lock = 0
    /\ IF lock = 0
         THEN /\ lock' = t
              /\ task' = [task EXCEPT ![t].pc = "locked"]
              /\ running' = t
         ELSE /\ running' = 0
              /\ UNCHANGED <<lock, task>>
    /\ UNCHANGED outsideLock

\* The body of the block (index reads and updates only, no await) and
\* Lock.__aexit__. n is the size of the snapshot a broadcast has copied.
\* connect goes on to send_personal; disconnect called from send_personal's
\* except branch returns into the caller's loop.
LockedSection(t, n) ==
    /\ running = t
    /\ task[t].pc = "locked"
    /\ lock' = Released(lock)
    /\ task' = [task EXCEPT ![t] =
                  IF task[t].op = "connect" THEN [@ EXCEPT !.pc = "loop", !.left = 1]
                  ELSE IF task[t].op = "broadcast"
                    THEN [@ EXCEPT !.pc = "loop", !.left = n]
                  ELSE [@ EXCEPT !.pc = "loop"]]
    /\ UNCHANGED <<running, outsideLock>>

\* the next send_personal of the caller, or its return: the websocket is not
\* CONNECTED (skip), or the task suspends in websocket.send_text
LoopNext(t, skip) ==
    /\ running = t
    /\ task[t].pc = "loop"
    /\ IF task[t].left = 0
         THEN /\ task' = [task EXCEPT ![t] = IdleTask]
              /\ running' = 0
         ELSE IF skip
           THEN /\ task' = [task EXCEPT ![t].left = @ - 1]
                /\ UNCHANGED running
           ELSE /\ task' = [task EXCEPT ![t].left = @ - 1, ![t].pc = "send_text"]
                /\ running' = 0
    /\ UNCHANGED <<lock, outsideLock>>

\* websocket.send_text has returned, or has raised: send_personal then
\* awaits disconnect
SendDone(t, ok) ==
    /\ running = 0
    /\ task[t].pc = "send_text"
    /\ task' = [task EXCEPT ![t].pc = IF ok THEN "loop" ELSE "acquire",
                            ![t].op = IF ok THEN @ ELSE "disconnect"]
    /\ running' = t
    /\ UNCHANGED <<lock, outsideLock>>

NextLock ==
    \/ \E t \in Tasks, op \in ManagerCalls : Call(t, op)
    \/ \E t \in Tasks : Accepted(t)
    \/ \E t \in Tasks : Acquire(t)
    \/ \E t \in Tasks, n \in 0..MaxSnapshot : LockedSection(t, n)
    \/ \E t \in Tasks, skip \in BOOLEAN : LoopNext(t, skip)
    \/ \E t \in Tasks, ok \in BOOLEAN : SendDone(t, ok)

\* ---------------------------------------------------------------------
\* Properties of the lock
\* ---------------------------------------------------------------------
\* task t can take a step
CanStep(t) ==
    \/ task[t].pc \in {"accept", "send_text"} /\ running = 0
    \/ task[t].pc = "acquire" /\ (running = t \/ (running = 0 /\ lock = 0))
    \/ task[t].pc \in {"locked", "loop"} /\ running = t

\* C21: the lock is never held across a send: no task that is inside
\* websocket.send_text holds the lock, and the lock is free whenever the
\* event loop switches tasks (a locked block has no await: it runs within
\* one step of the loop, possibly while other tasks are suspended in their
\* send_text); so an acquire, that of disconnect in send_personal's error
\* path included, finds the lock free, and while a call is in progress some
\* task can take a step.
C21_LockNotHeldAcrossSend ==
    /\ \A t \in Tasks : task[t].pc = "send_text" => lock # t
    /\ running = 0 => lock = 0
    /\ \A t \in Tasks : (task[t].pc = "acquire" /\ running = t) => lock = 0
    /\ (\E t \in Tasks : task[t].pc # "idle") => \E t \in Tasks : CanStep(t)

\* C21 as stated: in every state in which some task is inside
\* websocket.send_text, no task holds the lock.
C21_NoHolderDuringSend ==
    (\E t \in Tasks : task[t].pc = "send_text") => lock = 0

\* a send of a broadcast has raised and its task holds the lock in
\* disconnect while another broadcast and a connect are inside send_text
C21_Witness ==
    \E t, u, v \in Tasks :
        /\ task[t].op = "disconnect" /\ task[t].pc = "locked" /\ task[t].left > 0
        /\ lock = t
        /\ task[u].op = "broadcast" /\ task[u].pc = "send_text"
        /\ task[v].op = "connect" /\ task[v].pc = "send_text"

\* =====================================================================
\* JiraClient._request_with_retry
\* =====================================================================
MaxRetries == 3

\* What one self.client.request call does: it returns a response with a
\* status code (and, with 429, a Retry-After header or none), or raises
\* httpx.TimeoutException or another httpx.RequestError.
RetryAfterValues == {"absent", "1", "Wed, 21 Oct 2026 07:28:00 GMT"}
Response(status, retry_after) ==
    [exc |-> "none", status |-> status, retry_after |-> retry_after]
Raised(exc) == [exc |-> exc, status |-> 0, retry_after |-> "absent"]
Attempts ==
    {Response(status, "absent") : status \in {200, 401, 403, 404, 500}}
      \cup {Response(429, h) : h \in RetryAfterValues}
      \cup {Raised("TimeoutException"), Raised("RequestError")}

\* int(text): the value of a decimal literal, -1 for a ValueError
int(text) == IF text = "1" THEN 1 ELSE -1

\* int(e.response.headers.get("Retry-After", 2 ** attempt))
retry_after(headers, n) == IF headers = "absent" THEN 2 ^ n ELSE int(headers)

\* the end of an iteration that did not return or raise: the next
\* iteration, or the raise after the loop
ContinueLoop(n, limit) ==
    IF n + 1 < limit THEN "running" ELSE "JiraAPIError: Max retries exceeded"

\* how one iteration ends, given what the request did
Iteration(r, n, limit) ==
    IF r.exc = "TimeoutException" THEN ContinueLoop(n, limit)
    ELSE IF r.exc = "RequestError"
      THEN IF n = limit - 1 THEN "RequestError" ELSE ContinueLoop(n, limit)
    ELSE IF r.status = 200 THEN "returned"
    ELSE IF r.status = 429
      THEN IF retry_after(r.retry_after, n) < 0 THEN "ValueError"
           ELSE ContinueLoop(n, limit)
    ELSE IF r.status = 401 THEN "JiraAuthenticationError"
    ELSE IF r.status = 403 THEN "JiraPermissionError"
    ELSE IF r.status = 404 THEN "JiraNotFoundError"
    ELSE "JiraAPIError"

\* a call of _request_with_retry, up to its first request
RequestCall(limit) ==
    /\ result = "idle"
    /\ max_retries' = limit
    /\ attempt' = 0
    /\ requests' = <<>>
    /\ result' = IF limit > 0 THEN "running"
                 ELSE "JiraAPIError: Max retries exceeded"
    /\ UNCHANGED outsideRetry

\* one iteration of the loop: the request and what follows it
Request(r) ==
    /\ result = "running"
    /\ requests' = Append(requests, r)
    /\ result' = Iteration(r, attempt, max_retries)
    /\ attempt' = IF Iteration(r, attempt, max_retries) = "running"
                    THEN attempt + 1 ELSE attempt
    /\ UNCHANGED <<max_retries, outsideRetry>>

\* the caller has the result
RequestDone ==
    /\ result \notin {"idle", "running"}
    /\ result' = "idle"
    /\ attempt' = 0
    /\ requests' = <<>>
    /\ max_retries' = 0
    /\ UNCHANGED outsideRetry

NextRetry ==
    \/ \E limit \in 0..MaxRetries : RequestCall(limit)
    \/ \E r \in Attempts : Request(r)
    \/ RequestDone

\* ---------------------------------------------------------------------
\* Properties of _request_with_retry
\* ---------------------------------------------------------------------
Retried(r) == r.exc = "TimeoutException" \/ (r.exc = "none" /\ r.status = 429)

\* C24: _request_with_retry ends after at most max_retries HTTP attempts:
\* it returns on the first successful response and makes no attempt after
\* it; a 429 response or a timeout is followed by another attempt unless it
\* was attempt number max_retries; and when every one of the max_retries
\* attempts is a timeout or a 429 the call raises JiraAPIError 'Max retries
\* exceeded' after exactly max_retries attempts.
C24_BoundedRetry ==
    /\ Len(requests) <= max_retries
    /\ result = "running" => attempt = Len(requests) /\ attempt < max_retries
    /\ \A k \in 1..Len(requests) :
          (requests[k].exc = "none" /\ requests[k].status = 200)
              => k = Len(requests) /\ result = "returned"
    /\ result = "returned" => requests # <<>>
                              /\ requests[Len(requests)].status = 200
    /\ (result \notin {"idle", "running"}
          /\ \A k \in 1..Len(requests) : Retried(requests[k]))
         => /\ result = "JiraAPIError: Max retries exceeded"
            /\ Len(requests) = max_retries

\* =====================================================================
\* Feedback cache (FeedbackCache)
\* =====================================================================
MaxMarks == 3
CacheKeys == {"TEST-1", "TEST-2"}
CacheThreads == {1, 2}

IdleCaller == [pc |-> "idle", issue_key |-> None, content_hash |-> None,
               result |-> FALSE]
NoMark == [n |-> 0, content_hash |-> None]

\* should_comment: the answer for a connection that is open or not
should_commentBug(open, rows, issue_key, content_hash) ==
    IF ~open THEN TRUE
    ELSE IF issue_key \notin DOMAIN rows THEN TRUE
    ELSE FALSE
should_comment(open, rows, issue_key, content_hash) ==
    IF ~open THEN TRUE
    ELSE IF issue_key \notin DOMAIN rows THEN TRUE
    ELSE rows[issue_key].last_hash # content_hash

\* INSERT ... ON CONFLICT(issue_key) DO UPDATE of mark_commented
UpsertBug(rows, issue_key, content_hash) ==
    Put(rows, issue_key, [last_hash |-> content_hash, comment_count |-> 1])
Upsert(rows, issue_key, content_hash) ==
    IF issue_key \in DOMAIN rows
      THEN Put(rows, issue_key,
               [last_hash |-> content_hash,
                comment_count |-> rows[issue_key].comment_count + 1])
      ELSE Put(rows, issue_key,
               [last_hash |-> content_hash, comment_count |-> 1])

\* A thread calls should_comment: the SELECT runs with the lock held, so
\* no other call of this cache is inside its locked section.
ShouldComment(t, issue_key, content_hash) ==
    /\ conn
    /\ caller[t].pc = "idle"
    /\ caller' = [caller EXCEPT ![t] =
                    [pc |-> "answered", issue_key |-> issue_key,
                     content_hash |-> content_hash,
                     result |-> should_comment(conn, cache_rows, issue_key,
                                               content_hash)]]
    /\ UNCHANGED <<cache_rows, conn, applied, nMarks, outsideCache>>

\* the caller has used the answer
Answered(t) ==
    /\ caller[t].pc = "answered"
    /\ caller' = [caller EXCEPT ![t] = IdleCaller]
    /\ UNCHANGED <<cache_rows, conn, applied, nMarks, outsideCache>>

\* a thread calls mark_commented and waits for the lock
MarkCall(t, issue_key, content_hash) ==
    /\ conn
    /\ caller[t].pc = "idle"
    /\ nMarks < MaxMarks
    /\ nMarks' = nMarks + 1
    /\ caller' = [caller EXCEPT ![t] =
                    [pc |-> "marking", issue_key |-> issue_key,
                     content_hash |-> content_hash, result |-> FALSE]]
    /\ UNCHANGED <<cache_rows, conn, applied, outsideCache>>

\* The locked section of mark_commented: the upsert and the commit, or,
\* when sqlite raises (~ok), the rollback, after which the call raises.
MarkApply(t, ok) ==
    /\ caller[t].pc = "marking"
    /\ LET k == caller[t].issue_key
           h == caller[t].content_hash
       IN IF conn /\ ok
            THEN /\ cache_rows' = Upsert(cache_rows, k, h)
                 /\ applied' = [applied EXCEPT ![k] =
                                  [n |-> @.n + 1, content_hash |-> h]]
            ELSE UNCHANGED <<cache_rows, applied>>
    /\ caller' = [caller EXCEPT ![t] = IdleCaller]
    /\ UNCHANGED <<conn, nMarks, outsideCache>>

\* clear: DELETE FROM feedback_cache, with the lock held
Clear ==
    /\ conn
    /\ cache_rows' = <<>>
    /\ applied' = [k \in CacheKeys |-> NoMark]
    /\ UNCHANGED <<conn, caller, nMarks, outsideCache>>

\* close: the owner of the cache closes it when it is done with it
Close ==
    /\ conn
    /\ \A t \in CacheThreads : caller[t].pc = "idle"
    /\ conn' = FALSE
    /\ UNCHANGED <<cache_rows, caller, applied, nMarks, outsideCache>>

NextCache ==
    \/ \E t \in CacheThreads, k \in CacheKeys, h \in Hashes :
          ShouldComment(t, k, h)
    \/ \E t \in CacheThreads : Answered(t)
    \/ \E t \in CacheThreads, k \in CacheKeys, h \in Hashes : MarkCall(t, k, h)
    \/ \E t \in CacheThreads, ok \in BOOLEAN : MarkApply(t, ok)
    \/ Clear
    \/ Close

C14_NoLostIncrement ==
    \A k \in CacheKeys :
        IF applied[k].n = 0 THEN k \notin DOMAIN cache_rows
        ELSE /\ k \in DOMAIN cache_rows
             /\ cache_rows[k].comment_count = applied[k].n
             /\ cache_rows[k].last_hash = applied[k].content_hash

\* two mark_commented calls on an issue_key have been applied while a call
\* of another thread with another hash for the same issue_key is in progress
C14_Witness ==
    \E k \in CacheKeys, t \in CacheThreads :
        /\ k \in DOMAIN cache_rows
        /\ cache_rows[k].comment_count >= 2
        /\ caller[t].pc = "marking"
        /\ caller[t].issue_key = k
        /\ caller[t].content_hash # cache_rows[k].last_hash

\* =====================================================================
\* Delivery of feedback to the tracker: the command-line pass (app.main),
\* the batch runner's posting branch and the single-issue endpoint
\* =====================================================================
\* One tracker item, TEST-1, whose content is edited between runs.
MaxComments == 3
ItemKey == "TEST-1"
DeliverOutcomes == {"accepted", "refused", "raised"}

IdleCli == [pc |-> "idle", content_hash |-> None, dry_run |-> FALSE]

\* FeedbackWriter.deliver in mode "comment": True when dry_run, else
\* _post_comment, which returns whether add_comment was accepted (a
\* JiraAPIError or httpx.HTTPError of add_comment is caught)
deliver(dry_run, accepted) == IF dry_run THEN TRUE ELSE accepted

\* the comment list of the tracker after add_comment
add_comment(list, accepted, hash) ==
    IF accepted THEN Append(list, hash) ELSE list

\* a user edits the item in the tracker
EditItem(hash) ==
    /\ hash # item_hash
    /\ item_hash' = hash
    /\ UNCHANGED <<comments, cli, history, activities, cache_rows, applied,
                   outsideDelivery>>

\* app.main up to the filtered list: the item is kept if should_comment
\* says so, else the pass ends ("All issues are up to date")
CliFilter(dry_run) ==
    /\ cli.pc = "idle"
    /\ cli' = IF should_comment(TRUE, cache_rows, ItemKey, item_hash)
                THEN [pc |-> "processing", content_hash |-> item_hash,
                      dry_run |-> dry_run]
                ELSE IdleCli
    /\ UNCHANGED <<item_hash, comments, history, activities, cache_rows,
                   applied, outsideDelivery>>

\* app.main, the processing loop: generate_feedback, deliver and, on
\* success without dry_run, mark_commented. With dry_run the writer has no
\* client and posts nothing.
CliDeliver(accepted) ==
    /\ cli.pc = "processing"
    /\ Len(comments) < MaxComments
    /\ LET posted == ~cli.dry_run /\ accepted
           success == deliver(cli.dry_run, accepted)
       IN /\ comments' = add_comment(comments, posted, cli.content_hash)
          /\ IF success /\ ~cli.dry_run
               THEN /\ cache_rows' = Upsert(cache_rows, ItemKey,
                                            cli.content_hash)
                    /\ applied' = [applied EXCEPT ![ItemKey] =
                                     [n |-> @.n + 1,
                                      content_hash |-> cli.content_hash]]
               ELSE UNCHANGED <<cache_rows, applied>>
    /\ cli' = IdleCli
    /\ UNCHANGED <<item_hash, history, activities, outsideDelivery>>

\* One item of run_batch_analysis in a job with the given options:
\* save_feedback(posted_to_jira=False), then, if post_to_jira and not
\* dry_run, writer.deliver and the "comment" activity, or the "error"
\* activity when building the writer or deliver raises.
BatchItem(post_to_jira, dry_run, outcome) ==
    /\ Len(comments) < MaxComments
    /\ history' = history \cup {[was_posted_to_jira |-> FALSE,
                                  accepted |-> FALSE]}
    /\ IF post_to_jira /\ ~dry_run
         THEN /\ comments' = add_comment(comments, outcome = "accepted",
                                         item_hash)
              /\ activities' = activities \cup
                    {IF outcome = "raised"
                       THEN [type |-> "error", accepted |-> FALSE]
                       ELSE [type |-> "comment",
                             accepted |-> outcome = "accepted"]}
         ELSE UNCHANGED <<comments, activities>>
    /\ UNCHANGED <<item_hash, cli, cache_rows, applied, outsideDelivery>>

\* POST /{key}/analyze: save_feedback(posted_to_jira=False), then, if
\* post_to_jira, writer.deliver, history.was_posted_to_jira = True and the
\* commit, unless building the writer or deliver raises
AnalyzeIssue(post_to_jira, outcome) ==
    /\ Len(comments) < MaxComments
    /\ IF post_to_jira
         THEN /\ comments' = add_comment(comments, outcome = "accepted",
                                         item_hash)
              /\ history' = history \cup
                    {[was_posted_to_jira |-> outcome # "raised",
                      accepted |-> outcome = "accepted"]}
         ELSE /\ history' = history \cup {[was_posted_to_jira |-> FALSE,
                                           accepted |-> FALSE]}
              /\ UNCHANGED comments
    /\ UNCHANGED <<item_hash, cli, activities, cache_rows, applied,
                   outsideDelivery>>

NextDelivery ==
    \/ \E hash \in Hashes : EditItem(hash)
    \/ \E dry_run \in BOOLEAN : CliFilter(dry_run)
    \/ \E accepted \in BOOLEAN : CliDeliver(accepted)
    \/ \E post_to_jira, dry_run \in BOOLEAN, outcome \in DeliverOutcomes :
          BatchItem(post_to_jira, dry_run, outcome)
    \/ \E post_to_jira \in BOOLEAN, outcome \in DeliverOutcomes :
          AnalyzeIssue(post_to_jira, outcome)

Summaries ==
    {<<"add", "login", "page">>, <<"just", "fix", "it">>, <<"it">>, <<"it|">>}
Descriptions ==
    {<<>>,
     <<"|">>,
     <<"fix", "login", "asap">>,
     <<"acceptance", "criteria", "login", "page", "requires", "user">>}
LabelLists == {<<>>, <<"bug", "ui">>, <<"ui", "bug">>, <<"bug,ui">>}
Estimates == {0, 3}                 \* 0: no estimate

WordLen ==
    [w \in {"it|"} |-> 3] @@ [w \in {"|"} |-> 1] @@
    [add |-> 3, login |-> 5, page |-> 4, just |-> 4, fix |-> 3, it |-> 2,
     asap |-> 4, acceptance |-> 10, criteria |-> 8, requires |-> 8, user |-> 4]

\* DEFAULT_AMBIGUOUS_TERMS, the terms of a new user's configuration
DefaultTerms == <<"optimize", "ASAP", "soon", "quickly", "improve", "better",
                  "enhance", "fix", "update">>

RuleIds == <<"title_clarity", "description_length", "acceptance_criteria",
             "ambiguous_terms", "estimate_present", "labels", "scope_clarity">>

\* the weight each _check_* method puts into its RubricResult
RuleWeight ==
    [title_clarity |-> 10, description_length |-> 12,
     acceptance_criteria |-> 15, ambiguous_terms |-> 10,
     estimate_present |-> 8, labels |-> 7, scope_clarity |-> 10]

\* rubric_rules rows of a configuration: as created for a new user, with
\* one rule disabled, and with every weight set to 0
DefaultRules ==
    [r \in DOMAIN RuleWeight |-> [weight |-> RuleWeight[r], is_enabled |-> TRUE]]
RuleSettings ==
    {DefaultRules,
     [DefaultRules EXCEPT !["scope_clarity"].is_enabled = FALSE],
     [r \in DOMAIN RuleWeight |-> [weight |-> 0, is_enabled |-> TRUE]]}

\* user_rubric_configs rows
RubricConfigs ==
    [min_description_words : {4},
     require_acceptance_criteria : BOOLEAN,
     allowed_labels : {<<>>, <<"bug">>},
     ambiguous_terms : {DefaultTerms},
     rules : RuleSettings]

Issues ==
    [summary : Summaries, description : Descriptions, labels : LabelLists,
     estimate : Estimates]

\* str.lower on the words that occur
Lower(w) == IF w = "ASAP" THEN "asap" ELSE w

Contains(text, w) == \E i \in 1..Len(text) : text[i] = w

ContainsAny(text, words) == \E w \in words : Contains(text, w)

\* re.search of two words separated by one space
ContainsPair(text, a, b) ==
    \E i \in 1..(Len(text) - 1) : text[i] = a /\ text[i + 1] = b

\* re.search of a.*b.*c
ContainsInOrder(text, a, b, c) ==
    \E i, j, k \in 1..Len(text) :
        i < j /\ j < k /\ text[i] = a /\ text[j] = b /\ text[k] = c

RECURSIVE Chars(_)
\* len of the words joined by single spaces
Chars(text) ==
    IF text = <<>> THEN 0
    ELSE IF Len(text) = 1 THEN WordLen[text[1]]
    ELSE WordLen[Head(text)] + 1 + Chars(Tail(text))

RECURSIVE Dedup(_)
\* the distinct elements, in order of first occurrence
Dedup(s) ==
    IF s = <<>> THEN <<>>
    ELSE LET rest == Dedup(SelectSeq(Tail(s), LAMBDA x : x # Head(s)))
         IN <<Head(s)>> \o rest

RECURSIVE Reverse(_)
Reverse(s) == IF s = <<>> THEN <<>> ELSE Append(Reverse(Tail(s)), Head(s))

\* String hashing is randomised per interpreter process, and with it the
\* iteration order of a set of strings: one order per hash seed.
Seeds == {0, 1}
SetOrder(s, seed) == IF seed = 0 THEN Dedup(s) ELSE Reverse(Dedup(s))

Max(a, b) == IF a >= b THEN a ELSE b

\* a formatted text: its template, the strings and the numbers put into it
Text(template, strings, number, limit) ==
    [template |-> template, strings |-> strings, number |-> number,
     limit |-> limit]

NoText == Text("", <<>>, 0, 0)

RubricResult(rule_id, score, message, suggestion) ==
    [rule_id |-> rule_id, score |-> score, message |-> message,
     suggestion |-> suggestion, weight |-> RuleWeight[rule_id]]

check_title_clarity(issue) ==
    LET title == issue.summary
        has_filler == \/ ContainsAny(title, {"just", "maybe", "perhaps", "kinda"})
                      \/ ContainsPair(title, "sort", "of")
        has_action == ContainsAny(title, {"add", "fix", "create", "update",
                                          "remove", "implement", "refactor"})
        is_too_short == Chars(title) < 10
        is_too_long == Chars(title) > 100
        score == Max(0, 1000 - (IF has_filler THEN 300 ELSE 0)
                             - (IF ~has_action THEN 200 ELSE 0)
                             - (IF is_too_short THEN 300 ELSE 0)
                             - (IF is_too_long THEN 200 ELSE 0))
        issues == (IF has_filler THEN <<"contains filler words">> ELSE <<>>)
                  \o (IF ~has_action THEN <<"lacks action verb">> ELSE <<>>)
                  \o (IF is_too_short THEN <<"too short">> ELSE <<>>)
                  \o (IF is_too_long THEN <<"too long">> ELSE <<>>)
    IN IF score < 1000
         THEN RubricResult("title_clarity", score,
                           Text("Title quality issues", issues, 0, 0),
                           Text("Rewrite title", <<>>, 0, 0))
         ELSE RubricResult("title_clarity", score,
                           Text("Title is clear and actionable", <<>>, 0, 0),
                           NoText)

check_description_length(config, issue) ==
    LET word_count == Len(issue.description)
        min_words == config.min_description_words
    IN IF word_count = 0
         THEN RubricResult("description_length", 0,
                           Text("Description is empty", <<>>, 0, 0),
                           Text("Add a description", <<>>, 0, min_words))
         ELSE IF word_count < min_words
           THEN RubricResult("description_length",
                             (word_count * 1000) \div min_words,
                             Text("Description too short", <<>>, word_count,
                                  min_words),
                             Text("Expand description", <<>>, 0, min_words))
           ELSE RubricResult("description_length", 1000,
                             Text("Description length adequate", <<>>,
                                  word_count, 0),
                             NoText)

check_acceptance_criteria(config, issue) ==
    LET description == issue.description
        has_ac == \/ ContainsPair(description, "acceptance", "criteria")
                  \/ Contains(description, "ac:")
                  \/ ContainsInOrder(description, "given", "when", "then")
                  \/ ContainsPair(description, "[ ]", "[ ]")
                  \/ Contains(description, "requirements:")
                  \/ Contains(description, "must:")
    IN IF ~config.require_acceptance_criteria
         THEN IF has_ac
                THEN RubricResult("acceptance_criteria", 1000,
                        Text("Acceptance criteria present (optional)", <<>>, 0, 0),
                        NoText)
                ELSE RubricResult("acceptance_criteria", 800,
                        Text("No acceptance criteria (optional)", <<>>, 0, 0),
                        Text("Consider adding acceptance criteria", <<>>, 0, 0))
         ELSE IF has_ac
                THEN RubricResult("acceptance_criteria", 1000,
                        Text("Acceptance criteria present", <<>>, 0, 0), NoText)
                ELSE RubricResult("acceptance_criteria", 0,
                        Text("Acceptance criteria required but missing", <<>>, 0, 0),
                        Text("Add acceptance criteria", <<>>, 0, 0))

\* the message joins set(found_terms): the order is that of the process
check_ambiguous_terms(config, issue, seed) ==
    LET text == issue.summary \o issue.description
        found_terms == SelectSeq(config.ambiguous_terms,
                                 LAMBDA term : Contains(text, Lower(term)))
    IN IF found_terms = <<>>
         THEN RubricResult("ambiguous_terms", 1000,
                           Text("No ambiguous terms detected", <<>>, 0, 0),
                           NoText)
         ELSE RubricResult("ambiguous_terms",
                           Max(0, 1000 - Len(found_terms) * 150),
                           Text("Ambiguous terms found",
                                SetOrder(found_terms, seed), 0, 0),
                           Text("Replace vague terms", <<>>, 0, 0))

check_estimate_present(issue) ==
    IF issue.estimate > 0
      THEN RubricResult("estimate_present", 1000,
                        Text("Estimate present", <<>>, issue.estimate, 0), NoText)
      ELSE RubricResult("estimate_present", 500,
                        Text("No estimate provided", <<>>, 0, 0),
                        Text("Add story points or time estimate", <<>>, 0, 0))

check_labels(config, issue) ==
    LET labels == issue.labels
        allowed == config.allowed_labels
        invalid_labels == SelectSeq(labels, LAMBDA l : ~Contains(allowed, l))
    IN IF allowed = <<>>
         THEN IF labels # <<>>
                THEN RubricResult("labels", 1000,
                                  Text("Labels present", labels, 0, 0), NoText)
                ELSE RubricResult("labels", 700, Text("No labels", <<>>, 0, 0),
                                  Text("Add relevant labels", <<>>, 0, 0))
         ELSE IF labels # <<>> /\ invalid_labels = <<>>
                THEN RubricResult("labels", 1000,
                                  Text("All labels valid", labels, 0, 0), NoText)
                ELSE IF invalid_labels # <<>>
                  THEN RubricResult("labels", 500,
                                    Text("Invalid labels", invalid_labels, 0, 0),
                                    Text("Use only allowed labels", allowed, 0, 0))
                  ELSE RubricResult("labels", 600, Text("No labels", <<>>, 0, 0),
                                    Text("Add labels from", allowed, 0, 0))

check_scope_clarity(issue) ==
    LET description == issue.description
        has_scope_info ==
            \/ \E i \in 1..(Len(description) - 2) :
                  /\ description[i] = "out"
                  /\ description[i + 1] = "of"
                  /\ description[i + 2] = "scope"
            \/ ContainsPair(description, "in", "scope")
            \/ Contains(description, "dependencies:")
            \/ ContainsPair(description, "blocked", "by")
            \/ Contains(description, "requires")
            \/ Contains(description, "affects")
        has_broad_words == ContainsAny(description, {"everything", "all", "any",
                                                     "complete", "total", "entire"})
    IN IF has_scope_info
         THEN RubricResult("scope_clarity", 1000,
                           Text("Scope information present", <<>>, 0, 0), NoText)
         ELSE IF has_broad_words
           THEN RubricResult("scope_clarity", 400,
                             Text("Scope appears too broad", <<>>, 0, 0),
                             Text("Narrow scope", <<>>, 0, 0))
           ELSE RubricResult("scope_clarity", 700,
                             Text("Scope could be clearer", <<>>, 0, 0),
                             Text("Clarify what is in/out of scope", <<>>, 0, 0))

\* RubricEvaluator.evaluate in a process whose hash seed is seed
evaluate(config, issue, seed) ==
    <<check_title_clarity(issue),
      check_description_length(config, issue),
      check_acceptance_criteria(config, issue),
      check_ambiguous_terms(config, issue, seed),
      check_estimate_present(issue),
      check_labels(config, issue),
      check_scope_clarity(issue)>>

RECURSIVE SumSeq(_)
SumSeq(s) == IF s = <<>> THEN 0 ELSE Head(s) + SumSeq(Tail(s))

\* round(n / d): to the nearest integer, ties to the even one
RoundDiv(n, d) ==
    LET q == n \div d
        r == n % d
    IN IF 2 * r > d THEN q + 1
       ELSE IF 2 * r < d THEN q
       ELSE IF q % 2 = 0 THEN q ELSE q + 1

\* calculate_final_score: the final score
calculate_final_score(results) ==
    IF results = <<>> THEN 0
    ELSE LET total_weight == SumSeq([i \in DOMAIN results |-> results[i].weight])
             weighted_sum == SumSeq([i \in DOMAIN results |->
                                        results[i].score * results[i].weight])
         IN IF total_weight > 0 THEN RoundDiv(weighted_sum, total_weight) ELSE 0

\* RubricService.to_rubric_config
to_rubric_config(config) ==
    [min_description_words |-> config.min_description_words,
     require_acceptance_criteria |-> config.require_acceptance_criteria,
     allowed_labels |-> config.allowed_labels,
     ambiguous_terms |-> config.ambiguous_terms]

\* AnalysisService.analyze_issue: the rubric results and the score
analyze_issue(config, issue, seed) ==
    LET rubric_results == evaluate(to_rubric_config(config), issue, seed)
    IN [issue |-> issue,
        results |-> rubric_results,
        score |-> calculate_final_score(rubric_results)]

\* A string as the sequence of its pieces: the delimiter characters of the
\* fingerprint's pre-image are pieces of their own.
Spell(w) ==
    IF w = "it|" THEN <<"it", "|">>
    ELSE IF w = "bug,ui" THEN <<"bug", ",", "ui">>
    ELSE <<w>>

RECURSIVE Join(_, _)
\* sep.join(items)
Join(items, sep) ==
    IF items = <<>> THEN <<>>
    ELSE IF Len(items) = 1 THEN Spell(items[1])
    ELSE Spell(Head(items)) \o <<sep>> \o Join(Tail(items), sep)

\* f"{estimate}" of an Optional[float]
FormatEstimate(estimate) ==
    IF estimate = 0 THEN <<"None">> ELSE <<ToString(estimate), ".0">>

\* SHA-256 of a text: distinct texts have distinct digests
sha256(content) == <<"sha256", content>>

\* the text JiraIssue.content_hash digests
HashContent(issue) ==
    Join(issue.summary, " ") \o <<"|">>
      \o Join(issue.description, " ") \o <<"|">>
      \o Join(issue.labels, ",") \o <<"|">>
      \o FormatEstimate(issue.estimate)

\* JiraIssue.content_hash
content_hash(issue) == sha256(HashContent(issue))

IsPermutation(s, t) ==
    /\ Len(s) = Len(t)
    /\ \A x \in {s[i] : i \in DOMAIN s} \cup {t[i] : i \in DOMAIN t} :
          Cardinality({i \in DOMAIN s : s[i] = x})
              = Cardinality({i \in DOMAIN t : t[i] = x})

\* the same title, description and estimate, and the same labels in any order
SameContent(a, b) ==
    /\ a.summary = b.summary
    /\ a.description = b.description
    /\ a.estimate = b.estimate
    /\ IsPermutation(a.labels, b.labels)

\* an evaluation of the issue with the rubric configuration
Evaluate ==
    /\ evaluations' = evaluations \cup {analyze_issue(rubric, jira_issue, hash_seed)}
    /\ UNCHANGED <<jira_issue, rubric, hash_seed, fingerprints, outsideScore>>

\* a new interpreter process (a run of the command-line application, a
\* restart or another worker of the server)
Restart(seed) ==
    /\ hash_seed' = seed
    /\ UNCHANGED <<jira_issue, rubric, evaluations, fingerprints, outsideScore>>

\* The item is fetched from the tracker: the same content, its labels in
\* whatever order the tracker returns them, or other content (what was
\* observed of the previous content is dropped).
FetchIssue(fetched) ==
    /\ jira_issue' = fetched
    /\ IF SameContent(fetched, jira_issue)
         THEN UNCHANGED <<evaluations, fingerprints>>
         ELSE evaluations' = {} /\ fingerprints' = {}
    /\ UNCHANGED <<rubric, hash_seed, outsideScore>>

\* the user changes the rubric configuration (the evaluations made with the
\* previous one are dropped)
UpdateRubric(config) ==
    /\ config # rubric
    /\ rubric' = config
    /\ evaluations' = {}
    /\ UNCHANGED <<jira_issue, hash_seed, fingerprints, outsideScore>>

\* the fingerprint of the issue is taken
Fingerprint ==
    /\ fingerprints' = fingerprints
                          \cup {[issue |-> jira_issue,
                                 hash |-> content_hash(jira_issue)]}
    /\ UNCHANGED <<jira_issue, rubric, hash_seed, evaluations, outsideScore>>

NextScore ==
    \/ Evaluate
    \/ \E seed \in Seeds : Restart(seed)
    \/ \E fetched \in Issues : FetchIssue(fetched)
    \/ \E config \in RubricConfigs : UpdateRubric(config)
    \/ Fingerprint

\* ---------------------------------------------------------------------
\* Properties of the scorer and the fingerprint
\* ---------------------------------------------------------------------
Enabled(config) == {r \in DOMAIN config.rules : config.rules[r].is_enabled}

\* 100 x (sum of score x weight over the enabled rules) / (sum of their
\* weights), with the weights of the configuration
EnabledScore(config, results) ==
    LET on(i) == results[i].rule_id \in Enabled(config)
        total_weight ==
            SumSeq([i \in 1..Len(RuleIds) |->
                      IF RuleIds[i] \in Enabled(config)
                        THEN config.rules[RuleIds[i]].weight ELSE 0])
        weighted_sum ==
            SumSeq([i \in DOMAIN results |->
                      IF on(i)
                        THEN results[i].score
                                * config.rules[results[i].rule_id].weight
                        ELSE 0])
    IN IF total_weight = 0 THEN 0 ELSE RoundDiv(weighted_sum, total_weight)

\* C18: disabled rules do not count: a rule whose enabled flag is false
\* contributes no finding to the evaluation result and no weight to the
\* weighted average; the overall score is 100 x (sum of score x weight over
\* the enabled rules) / (sum of weight over the enabled rules), and 0 when
\* that weight sum is 0 or the rule set is empty.
C18_DisabledRulesDoNotCount ==
    \A e \in evaluations :
        /\ \A i \in DOMAIN e.results : e.results[i].rule_id \in Enabled(rubric)
        /\ e.score = EnabledScore(rubric, e.results)

\* C19: scoring is deterministic: two evaluations of the same item with the
\* same rubric configuration give identical results (overall score and the
\* findings in order, with score, message and suggestion), whatever earlier
\* evaluations left behind.
C19_Deterministic ==
    \A e, f \in evaluations : e.issue = f.issue => e = f

\* C25: the content hash changes whenever the content changes: when the
\* item is fetched again and differs from what it was in at least one of
\* summary, description, label list and estimate, its content_hash is
\* digested from another text than before, also when field values contain
\* the delimiter characters '|' and ','.
C25_HashChangesWithContent ==
    [][(\/ jira_issue'.summary # jira_issue.summary
        \/ jira_issue'.description # jira_issue.description
        \/ jira_issue'.labels # jira_issue.labels
        \/ jira_issue'.estimate # jira_issue.estimate)
          => /\ HashContent(jira_issue') # HashContent(jira_issue)
             /\ content_hash(jira_issue') # content_hash(jira_issue)]_vars

\* C20: the content fingerprint is order-independent for labels: two items
\* with the same title, description and estimate whose label lists are
\* permutations of each other have the same content_hash.
C20_LabelOrderIndependent ==
    \A a, b \in fingerprints :
        SameContent(a.issue, b.issue) => a.hash = b.hash

InitJob ==
    /\ job = NewJob
    /\ pc = "start"
    /\ nIssues = 0
    /\ idx = 0
    /\ events = <<>>
    /\ scored = <<>>
    /\ saved = <<>>
    /\ scores = <<>>
    /\ responses = <<>>

InitFb ==
    /\ records = <<>>
    /\ writer = [w \in Writers |-> IdleWriter]

InitBus ==
    /\ job_connections = [j \in {} |-> {}]
    /\ user_connections = [u \in {} |-> {}]
    /\ connection_info = [c \in {} |-> {}]
    /\ ws = [c \in Conns |-> NewSocket]
    /\ received = [c \in Conns |-> 0]
    /\ emitter = IdleEmitter
    /\ finished = {}

InitLock ==
    /\ lock = 0
    /\ task = [t \in Tasks |-> IdleTask]
    /\ running = 0

InitRetry ==
    /\ max_retries = 0
    /\ attempt = 0
    /\ requests = <<>>
    /\ result = "idle"

InitCache ==
    /\ cache_rows = <<>>
    /\ conn = TRUE
    /\ caller = [t \in CacheThreads |-> IdleCaller]
    /\ applied = [k \in CacheKeys |-> NoMark]
    /\ nMarks = 0

InitDelivery ==
    /\ item_hash = "abcd"
    /\ comments = <<>>
    /\ cli = IdleCli
    /\ history = {}
    /\ activities = {}

InitScore ==
    /\ jira_issue = [summary |-> <<"add", "login", "page">>,
                     description |-> <<>>, labels |-> <<>>, estimate |-> 0]
    /\ rubric = [min_description_words |-> 4,
                 require_acceptance_criteria |-> TRUE,
                 allowed_labels |-> <<>>,
                 ambiguous_terms |-> DefaultTerms,
                 rules |-> DefaultRules]
    /\ hash_seed = 0
    /\ evaluations = {}
    /\ fingerprints = {}

Init == InitJob /\ InitFb /\ InitBus /\ InitLock /\ InitRetry /\ InitCache /\ InitDelivery /\ InitScore

Next == NextJob \/ NextFeedback \/ NextBus \/ NextLock \/ NextRetry \/ NextCache \/ NextDelivery \/ NextScore

Spec == Init /\ [][Next]_vars

SpecJob == Init /\ [][NextJob]_vars

SpecFeedback == Init /\ [][NextFeedback]_vars

SpecBus == Init /\ [][NextBus]_vars

SpecLock == Init /\ [][NextLock]_vars

SpecRetry == Init /\ [][NextRetry]_vars

SpecCache == Init /\ [][NextCache]_vars

SpecDelivery == Init /\ [][NextDelivery]_vars

SpecScore == Init /\ [][NextScore]_vars
====
